---- MODULE Spec2Model ----
(***************************************************************************)
(* A model of kova_ipfs_client.client.IPFSClient: the client object (its   *)
(* transport handle), the storage node it talks to (blob store and         *)
(* recursive pin set), the local filesystem touched by add_file and        *)
(* get_file, and the payload conversions of add_data and get_data.         *)
(*                                                                         *)
(* Text is a sequence of code points, bytes a sequence of 0..255.  Python  *)
(* values are tagged records [t |-> tag, v |-> value]; the tag is compared *)
(* first, so values of different Python types are unequal.                 *)
(***************************************************************************)
EXTENDS Integers, Sequences, FiniteSets, TLC

VARIABLES
    _client,     \* self._client: 0 is None, h > 0 the h-th handle made by connect()
    handles,     \* how many transport handles ipfshttpclient.connect() has made
    closeCalls,  \* per handle, how many times its close() was called
    store,       \* node: the blobs it holds (content addressed)
    pins,        \* node: the recursively pinned identifiers
    disk,        \* local filesystem: path -> bytes (or NoFile)
    outcome,     \* what the last call did: returned a value or raised
    lifecycle,   \* history: "new", "failed" (connect only failed), "connected", "closed"
    lastPinOp,   \* history: per identifier, the last successful pin/unpin call
    scope,       \* the async-with block: "outside", "inside", "exited"
    entry,       \* history: the handle acquired when the block was entered
    payload      \* the payload under test of the round-trip specification

vars == <<_client, handles, closeCalls, store, pins, disk, outcome,
          lifecycle, lastPinOp, scope, entry, payload>>

\* --------------------------------------------------------------- bounds

MaxHandles == 2
MaxCloseCalls == 2
MaxLen == 2

\* ------------------------------------------------------- Python values

None == [t |-> "none", v |-> <<>>]
PyBool(b) == [t |-> "bool", v |-> b]
PyInt(n) == [t |-> "int", v |-> n]
PyStr(s) == [t |-> "str", v |-> s]
PyBytes(b) == [t |-> "bytes", v |-> b]
\* a dict is its (key, value) pairs in insertion order, keys distinct
PyDict(pairs) == [t |-> "dict", v |-> pairs]

RECURSIVE PyEq(_, _)
\* Python's ==: dicts compare by key set and per-key value, whatever the order
PyEq(a, b) ==
    IF a.t # b.t THEN FALSE
    ELSE IF a.t # "dict" THEN a.v = b.v
    ELSE /\ Len(a.v) = Len(b.v)
         /\ \A i \in 1..Len(a.v) : \E j \in 1..Len(b.v) :
                PyEq(a.v[i][1], b.v[j][1]) /\ PyEq(a.v[i][2], b.v[j][2])

\* dict[key] = value: replaces the value of an existing key in place, else appends
DictSet(pairs, key, value) ==
    IF \E i \in 1..Len(pairs) : pairs[i][1] = key
    THEN [i \in 1..Len(pairs) |->
             IF pairs[i][1] = key THEN <<key, value>> ELSE pairs[i]]
    ELSE Append(pairs, <<key, value>>)

\* ---------------------------------------------------------------- UTF-8
\* The modelled alphabet: code points below 0x800, so one- and two-byte
\* sequences; bytes 0xE0 and above are taken only as 0xFF, never a valid lead.

EncodeChar(c) ==
    IF c < 128 THEN <<c>> ELSE <<192 + (c \div 64), 128 + (c % 64)>>

RECURSIVE Encode(_)
\* str.encode()
Encode(s) == IF s = <<>> THEN <<>> ELSE EncodeChar(Head(s)) \o Encode(Tail(s))

RECURSIVE DecodeFrom(_, _, _)
DecodeFrom(b, i, acc) ==
    IF i > Len(b) THEN [ok |-> TRUE, text |-> acc]
    ELSE IF b[i] < 128 THEN DecodeFrom(b, i + 1, Append(acc, b[i]))
    ELSE IF /\ b[i] >= 194 /\ b[i] <= 223
            /\ i + 1 <= Len(b) /\ b[i + 1] >= 128 /\ b[i + 1] <= 191
         THEN DecodeFrom(b, i + 2, Append(acc, (b[i] - 192) * 64 + (b[i + 1] - 128)))
    ELSE [ok |-> FALSE, text |-> <<>>]

\* bytes.decode(): strict UTF-8; ok = FALSE is UnicodeDecodeError
Decode(b) == DecodeFrom(b, 1, <<>>)

\* ----------------------------------------------------------------- JSON
\* json.loads / json.dumps over the alphabet  space " , 1 : a { } e-acute:
\* whitespace, non-negative integers, strings without escapes, objects.

IsWs(c) == c \in {32, 9, 10, 13}
IsDigit(c) == c >= 48 /\ c <= 57

RECURSIVE SkipWs(_, _)
SkipWs(s, i) == IF i <= Len(s) /\ IsWs(s[i]) THEN SkipWs(s, i + 1) ELSE i

JsonFail == [ok |-> FALSE, val |-> None, end |-> 0]
JsonOk(val, end) == [ok |-> TRUE, val |-> val, end |-> end]

RECURSIVE ScanString(_, _, _)
\* scanstring from the index after the opening quote
ScanString(s, i, acc) ==
    IF i > Len(s) THEN JsonFail
    ELSE IF s[i] = 34 THEN JsonOk(PyStr(acc), i + 1)
    ELSE IF s[i] < 32 THEN JsonFail
    ELSE ScanString(s, i + 1, Append(acc, s[i]))

RECURSIVE ScanDigits(_, _)
ScanDigits(s, i) == IF i <= Len(s) /\ IsDigit(s[i]) THEN ScanDigits(s, i + 1) ELSE i

RECURSIVE DigitsValue(_, _, _, _)
DigitsValue(s, i, j, acc) ==
    IF i >= j THEN acc ELSE DigitsValue(s, i + 1, j, acc * 10 + (s[i] - 48))

\* NUMBER_RE at a digit: 0 | [1-9][0-9]*
ScanNumber(s, i) ==
    LET j == IF s[i] = 48 THEN i + 1 ELSE ScanDigits(s, i)
    IN  JsonOk(PyInt(DigitsValue(s, i, j, 0)), j)

RECURSIVE ScanOnce(_, _)
RECURSIVE JSONObject(_, _, _)

\* scan_once: one JSON value starting at s[i]
ScanOnce(s, i) ==
    IF i > Len(s) THEN JsonFail
    ELSE IF s[i] = 34 THEN ScanString(s, i + 1, <<>>)
    ELSE IF s[i] = 123 THEN JSONObject(s, i + 1, <<>>)
    ELSE IF IsDigit(s[i]) THEN ScanNumber(s, i)
    ELSE JsonFail

\* JSONObject from the index after "{" (pairs empty) or after a ","
JSONObject(s, i, pairs) ==
    LET k == SkipWs(s, i)
    IN  IF k > Len(s) THEN JsonFail
        ELSE IF s[k] = 125 /\ pairs = <<>> THEN JsonOk(PyDict(pairs), k + 1)
        ELSE IF s[k] # 34 THEN JsonFail
        ELSE LET key == ScanString(s, k + 1, <<>>)
             IN  IF ~key.ok THEN JsonFail
                 ELSE LET c == SkipWs(s, key.end)
                      IN  IF c > Len(s) \/ s[c] # 58 THEN JsonFail
                          ELSE LET val == ScanOnce(s, SkipWs(s, c + 1))
                               IN  IF ~val.ok THEN JsonFail
                                   ELSE LET n == SkipWs(s, val.end)
                                            p == DictSet(pairs, key.val, val.val)
                                        IN  IF n > Len(s) THEN JsonFail
                                            ELSE IF s[n] = 125 THEN JsonOk(PyDict(p), n + 1)
                                            ELSE IF s[n] = 44 THEN JSONObject(s, n + 1, p)
                                            ELSE JsonFail

\* json.loads(text): ok = FALSE is JSONDecodeError
JsonLoads(text) ==
    LET r == ScanOnce(text, SkipWs(text, 1))
    IN  IF r.ok /\ SkipWs(text, r.end) = Len(text) + 1
        THEN [ok |-> TRUE, val |-> r.val]
        ELSE [ok |-> FALSE, val |-> None]

RECURSIVE IntToStr(_)
IntToStr(n) == IF n < 10 THEN <<48 + n>> ELSE IntToStr(n \div 10) \o <<48 + (n % 10)>>

\* a dict key as json.dumps writes it: an int key becomes its decimal string
KeyText(k) == IF k.t = "int" THEN IntToStr(k.v) ELSE k.v

RECURSIVE JsonDumps(_)
RECURSIVE DumpItems(_, _)
DumpItems(pairs, i) ==
    IF i > Len(pairs) THEN <<>>
    ELSE (IF i > 1 THEN <<44, 32>> ELSE <<>>)
         \o <<34>> \o KeyText(pairs[i][1]) \o <<34, 58, 32>>
         \o JsonDumps(pairs[i][2])
         \o DumpItems(pairs, i + 1)

\* json.dumps(value), default separators; strings here need no escape
JsonDumps(x) ==
    IF x.t = "int" THEN IntToStr(x.v)
    ELSE IF x.t = "str" THEN <<34>> \o x.v \o <<34>>
    ELSE <<123>> \o DumpItems(x.v, 1) \o <<125>>

\* -------------------------------------------------------------- inputs

\* the bytes, code points and dicts the payloads are drawn from
ByteAlphabet == {255, 195, 169, 32, 34, 44, 49, 58, 97, 123, 125}
CharAlphabet == {32, 34, 44, 49, 58, 97, 123, 125, 233}
SeqsUpTo(S, n) == UNION {[1..k -> S] : k \in 0..n}

DictPayloads ==
    { PyDict(<<>>),
      PyDict(<< <<PyStr(<<97>>), PyInt(1)>> >>),
      PyDict(<< <<PyStr(<<97>>), PyStr(<<97, 32, 49>>)>> >>),
      PyDict(<< <<PyStr(<<97>>), PyDict(<< <<PyStr(<<49>>), PyInt(11)>> >>)>> >>),
      PyDict(<< <<PyStr(<<97>>), PyInt(1)>>, <<PyStr(<<49>>), PyStr(<<>>)>> >>),
      PyDict(<< <<PyInt(1), PyStr(<<97>>)>> >>) }

\* every payload add_data accepts, within MaxLen
AllPayloads ==
    {PyBytes(b) : b \in SeqsUpTo(ByteAlphabet, MaxLen)}
        \cup {PyStr(s) : s \in SeqsUpTo(CharAlphabet, MaxLen)}
        \cup DictPayloads

\* the payloads of the lifecycle specification: {"a": 1} and b"\xff"
SamplePayloads ==
    { PyDict(<< <<PyStr(<<97>>), PyInt(1)>> >>), PyBytes(<<255>>) }

\* ----------------------------------------------------------------- node
\* The identifier of a blob: opaque, and a function of the bytes alone.
Cid(b) == [t |-> "cid", v |-> b]

\* add_file's paths: "in" exists from the start, "out" once get_file wrote it
Paths == {"in", "out", "missing"}
FileBlob == <<255>>
\* get_file's output_path: "" is None, "ro" cannot be written (OSError)
OutPaths == {"", "out", "ro"}

\* ------------------------------------------------------------- outcomes

ClientErrors == {"IPFSError", "IPFSConnectionError", "IPFSTimeoutError"}

Returned(op, value, lib, arg, pin) ==
    [op |-> op, kind |-> "return", exc |-> "none", cause |-> "none",
     value |-> value, lib |-> lib, arg |-> arg, pin |-> pin]

Raised(op, exc, cause, lib, arg, pin) ==
    [op |-> op, kind |-> "raise", exc |-> exc, cause |-> cause,
     value |-> None, lib |-> lib, arg |-> arg, pin |-> pin]

\* What a call on self._client does before the node answers: AttributeError on
\* None, a transport exception of the library when the request fails.
LibCall(ok) ==
    IF _client = 0 THEN "AttributeError" ELSE IF ok THEN "ok" ELSE "TransportError"

\* ------------------------------------------------------ connect / close

ConnectEffect(op, ok) ==
    /\ ok => handles < MaxHandles
    /\ IF ok
       THEN /\ handles' = handles + 1
            /\ _client' = handles + 1
            /\ lifecycle' = "connected"
            /\ outcome' = Returned(op, None, "ok", None, FALSE)
       ELSE /\ UNCHANGED <<handles, _client>>
            /\ lifecycle' = IF lifecycle = "new" THEN "failed" ELSE lifecycle
            /\ outcome' = Raised(op, "IPFSConnectionError", "TransportError",
                                 "TransportError", None, FALSE)

connect(ok) ==
    /\ ConnectEffect("connect", ok)
    /\ UNCHANGED <<closeCalls, store, pins, disk, lastPinOp, scope, entry, payload>>

\* whether close() reaches the handle: `if self._client:`
CloseTouchesHandle == _client # 0

RECURSIVE SumTo(_, _)
SumTo(f, n) == IF n = 0 THEN 0 ELSE f[n] + SumTo(f, n - 1)
\* close() calls made on all handles so far
TotalCloses == SumTo(closeCalls, handles)

CloseEffect(op, raises) ==
    IF CloseTouchesHandle
    THEN /\ TotalCloses < MaxCloseCalls
         /\ closeCalls' = [closeCalls EXCEPT ![_client] = @ + 1]
         /\ IF raises
            THEN /\ outcome' = Raised(op, "TransportError", "TransportError",
                                      "TransportError", None, FALSE)
                 /\ UNCHANGED lifecycle
            ELSE /\ outcome' = Returned(op, None, "ok", None, FALSE)
                 /\ lifecycle' = IF lifecycle = "connected" THEN "closed" ELSE lifecycle
    ELSE /\ ~raises
         /\ outcome' = Returned(op, None, "none", None, FALSE)
         /\ UNCHANGED <<closeCalls, lifecycle>>

close(raises) ==
    /\ CloseEffect("close", raises)
    /\ UNCHANGED <<_client, handles, store, pins, disk, lastPinOp, scope, entry, payload>>

\* async with: __aenter__ awaits connect(); the block is entered when it returns
aenter(ok) ==
    /\ scope # "inside"
    /\ ConnectEffect("__aenter__", ok)
    /\ scope' = IF ok THEN "inside" ELSE scope
    /\ entry' = IF ok THEN handles + 1 ELSE entry
    /\ UNCHANGED <<closeCalls, store, pins, disk, lastPinOp, payload>>

\* __aexit__ awaits close(), whether the body raised or not
aexit(bodyRaised, raises) ==
    /\ scope = "inside"
    /\ CloseEffect(IF bodyRaised THEN "__aexit__(exc)" ELSE "__aexit__", raises)
    /\ scope' = "exited"
    /\ UNCHANGED <<_client, handles, store, pins, disk, lastPinOp, entry, payload>>

\* ------------------------------------------------------------- add / get

PyList(S) == [t |-> "list", v |-> S]
PyPath(p) == [t |-> "path", v |-> p]
PyStats == [t |-> "stats", v |-> <<>>]

\* a handler that drops its pin argument, leaving the library's default pin=True
PinFlagDropped(pin) == TRUE

\* the pin flag as the handlers hand it to the library: pin=pin
PinFlag(pin) == pin

\* add_data's conversion of its argument to bytes
ToBytes(data) ==
    IF data.t = "dict" THEN Encode(JsonDumps(data))
    ELSE IF data.t = "str" THEN Encode(data.v)
    ELSE data.v

\* the node's add endpoint: stores the blob, pins it when asked to
NodeAdd(b, pin) ==
    /\ store' = store \cup {b}
    /\ pins' = IF pin THEN pins \cup {Cid(b)} ELSE pins
    /\ lastPinOp' = IF pin THEN [lastPinOp EXCEPT !.unpin = @ \ {Cid(b)}]
                    ELSE lastPinOp

add_file(path, pin, ok) ==
    LET lib == LibCall(ok)
    IN  /\ IF disk[path] = None
           THEN /\ outcome' = Raised("add_file", "IPFSError", "IPFSError", "none",
                                     PyPath(path), pin)
                /\ UNCHANGED <<store, pins, lastPinOp>>
           ELSE IF lib = "ok"
           THEN /\ NodeAdd(disk[path].v, PinFlag(pin))
                /\ outcome' = Returned("add_file", Cid(disk[path].v), lib,
                                       PyPath(path), pin)
           ELSE /\ outcome' = Raised("add_file", "IPFSError", lib, lib,
                                     PyPath(path), pin)
                /\ UNCHANGED <<store, pins, lastPinOp>>
        /\ UNCHANGED <<_client, handles, closeCalls, disk, lifecycle, scope, entry,
                       payload>>

add_data(data, pin, ok) ==
    LET lib == LibCall(ok)
        b == ToBytes(data)
    IN  /\ IF lib = "ok"
           THEN /\ NodeAdd(b, PinFlag(pin))
                /\ outcome' = Returned("add_data", Cid(b), lib, data, pin)
           ELSE /\ outcome' = Raised("add_data", "IPFSError", lib, lib, data, pin)
                /\ UNCHANGED <<store, pins, lastPinOp>>
        /\ UNCHANGED <<_client, handles, closeCalls, disk, lifecycle, scope, entry,
                       payload>>

\* self._client.cat(hash): the blob, or the node's error for an unknown identifier
Cat(hash, ok) ==
    LET lib == LibCall(ok)
    IN  IF lib # "ok" THEN [lib |-> lib, data |-> <<>>]
        ELSE IF hash.v \in store THEN [lib |-> "ok", data |-> hash.v]
        ELSE [lib |-> "ErrorResponse", data |-> <<>>]

get_file(hash, out, ok) ==
    LET c == Cat(hash, ok)
    IN  /\ IF c.lib # "ok"
           THEN /\ outcome' = Raised("get_file", "IPFSError", c.lib, c.lib, hash, FALSE)
                /\ UNCHANGED disk
           ELSE IF out = ""
           THEN /\ outcome' = Returned("get_file", PyBytes(c.data), "ok", hash, FALSE)
                /\ UNCHANGED disk
           ELSE IF out = "out"
           THEN /\ disk' = [disk EXCEPT ![out] = PyBytes(c.data)]
                /\ outcome' = Returned("get_file", PyBytes(c.data), "ok", hash, FALSE)
           ELSE /\ outcome' = Raised("get_file", "IPFSError", "OSError", "ok", hash, FALSE)
                /\ UNCHANGED disk
        /\ UNCHANGED <<_client, handles, closeCalls, store, pins, lifecycle, lastPinOp,
                       scope, entry, payload>>

\* get_data's parse of the fetched bytes: json.loads(data.decode()), and in the
\* handler of (JSONDecodeError, UnicodeDecodeError) data.decode() once more
GetDataParse(data) ==
    LET d == Decode(data)
        j == JsonLoads(d.text)
    IN  IF d.ok /\ j.ok THEN [raised |-> FALSE, exc |-> "none", value |-> j.val]
        ELSE IF d.ok THEN [raised |-> FALSE, exc |-> "none", value |-> PyStr(d.text)]
        ELSE [raised |-> TRUE, exc |-> "UnicodeDecodeError", value |-> None]

get_data(hash, ok) ==
    LET c == Cat(hash, ok)
        r == GetDataParse(c.data)
    IN  /\ IF c.lib # "ok"
           THEN outcome' = Raised("get_data", "IPFSError", c.lib, c.lib, hash, FALSE)
           ELSE IF r.raised
           THEN outcome' = Raised("get_data", "IPFSError", r.exc, "ok", hash, FALSE)
           ELSE outcome' = Returned("get_data", r.value, "ok", hash, FALSE)
        /\ UNCHANGED <<_client, handles, closeCalls, store, pins, disk, lifecycle,
                       lastPinOp, scope, entry, payload>>

\* ----------------------------------------------------------------- pins

\* the node rejects pinning an identifier it does not hold
pin(hash, ok) ==
    LET lib == IF LibCall(ok) = "ok" /\ hash.v \notin store THEN "ErrorResponse"
               ELSE LibCall(ok)
    IN  /\ IF lib = "ok"
           THEN /\ pins' = pins \cup {hash}
                /\ lastPinOp' = [pin |-> lastPinOp.pin \cup {hash},
                                 unpin |-> lastPinOp.unpin \ {hash}]
                /\ outcome' = Returned("pin", PyBool(TRUE), lib, hash, FALSE)
           ELSE /\ outcome' = Raised("pin", "IPFSError", lib, lib, hash, FALSE)
                /\ UNCHANGED <<pins, lastPinOp>>
        /\ UNCHANGED <<_client, handles, closeCalls, store, disk, lifecycle, scope,
                       entry, payload>>

\* the node rejects unpinning an identifier that is not pinned
unpin(hash, ok) ==
    LET lib == IF LibCall(ok) = "ok" /\ hash \notin pins THEN "ErrorResponse"
               ELSE LibCall(ok)
    IN  /\ IF lib = "ok"
           THEN /\ pins' = pins \ {hash}
                /\ lastPinOp' = [pin |-> lastPinOp.pin \ {hash},
                                 unpin |-> lastPinOp.unpin \cup {hash}]
                /\ outcome' = Returned("unpin", PyBool(TRUE), lib, hash, FALSE)
           ELSE /\ outcome' = Raised("unpin", "IPFSError", lib, lib, hash, FALSE)
                /\ UNCHANGED <<pins, lastPinOp>>
        /\ UNCHANGED <<_client, handles, closeCalls, store, disk, lifecycle, scope,
                       entry, payload>>

\* the answer of pin.ls(type="recursive"): {"Keys": {<hash>: {"Type": "recursive"}}}
PinLs == [Keys |-> [c \in pins |-> [Type |-> "recursive"]]]

\* [pin["Hash"] for pin in pins["Keys"].values()]
ListPinsParse(resp) ==
    IF \A c \in DOMAIN resp.Keys : "Hash" \in DOMAIN resp.Keys[c]
    THEN [raised |-> FALSE, exc |-> "none",
          value |-> PyList({resp.Keys[c].Hash : c \in DOMAIN resp.Keys})]
    ELSE [raised |-> TRUE, exc |-> "KeyError", value |-> None]

list_pins(ok) ==
    LET lib == LibCall(ok)
        r == ListPinsParse(PinLs)
    IN  /\ IF lib # "ok"
           THEN outcome' = Raised("list_pins", "IPFSError", lib, lib, None, FALSE)
           ELSE IF r.raised
           THEN outcome' = Raised("list_pins", "IPFSError", r.exc, "ok", None, FALSE)
           ELSE outcome' = Returned("list_pins", r.value, "ok", None, FALSE)
        /\ UNCHANGED <<_client, handles, closeCalls, store, pins, disk, lifecycle,
                       lastPinOp, scope, entry, payload>>

get_stats(ok) ==
    LET lib == LibCall(ok)
    IN  /\ IF lib = "ok"
           THEN outcome' = Returned("get_stats", PyStats, lib, None, FALSE)
           ELSE outcome' = Raised("get_stats", "IPFSError", lib, lib, None, FALSE)
        /\ UNCHANGED <<_client, handles, closeCalls, store, pins, disk, lifecycle,
                       lastPinOp, scope, entry, payload>>

\* an is_connected that wraps a failed probe like the other operations do
IsConnectedWrapped(lib) ==
    IF lib = "ok" THEN Returned("is_connected", PyBool(TRUE), lib, None, FALSE)
    ELSE Raised("is_connected", "IPFSError", lib, lib, None, FALSE)

\* is_connected's try / bare except around self._client.id()
IsConnectedResult(lib) ==
    IF lib = "ok" THEN Returned("is_connected", PyBool(TRUE), lib, None, FALSE)
    ELSE Returned("is_connected", PyBool(FALSE), lib, None, FALSE)

is_connected(ok) ==
    /\ outcome' = IsConnectedResult(LibCall(ok))
    /\ UNCHANGED <<_client, handles, closeCalls, store, pins, disk, lifecycle,
                   lastPinOp, scope, entry, payload>>

\* ------------------------------------------------------- specifications

Cids == {Cid(ToBytes(p)) : p \in SamplePayloads} \cup {Cid(FileBlob)}

Init ==
    /\ _client = 0
    /\ handles = 0
    /\ closeCalls = [h \in 1..MaxHandles |-> 0]
    /\ store = {}
    /\ pins = {}
    /\ disk = [p \in Paths |-> IF p = "in" THEN PyBytes(FileBlob) ELSE None]
    /\ outcome = Returned("__init__", None, "none", None, FALSE)
    /\ lifecycle = "new"
    /\ lastPinOp = [pin |-> {}, unpin |-> {}]
    /\ scope = "outside"
    /\ entry = 0
    /\ payload = None

Next ==
    \/ \E ok \in BOOLEAN : connect(ok)
    \/ \E raises \in BOOLEAN : close(raises)
    \/ \E path \in Paths, p \in BOOLEAN, ok \in BOOLEAN : add_file(path, p, ok)
    \/ \E data \in SamplePayloads, p \in BOOLEAN, ok \in BOOLEAN : add_data(data, p, ok)
    \/ \E hash \in Cids, out \in OutPaths, ok \in BOOLEAN : get_file(hash, out, ok)
    \/ \E hash \in Cids, ok \in BOOLEAN : get_data(hash, ok)
    \/ \E hash \in Cids, ok \in BOOLEAN : pin(hash, ok)
    \/ \E hash \in Cids, ok \in BOOLEAN : unpin(hash, ok)
    \/ \E ok \in BOOLEAN : list_pins(ok)
    \/ \E ok \in BOOLEAN : get_stats(ok)
    \/ \E ok \in BOOLEAN : is_connected(ok)

Spec == Init /\ [][Next]_vars

\* The scoped pattern: the block's body may call what reaches the handle.
ScopeNext ==
    \/ \E ok \in BOOLEAN : aenter(ok)
    \/ \E bodyRaised \in BOOLEAN, raises \in BOOLEAN : aexit(bodyRaised, raises)
    \/ \E ok \in BOOLEAN : connect(ok)
    \/ \E raises \in BOOLEAN : close(raises)
    \/ \E ok \in BOOLEAN : get_stats(ok)
    \/ \E ok \in BOOLEAN : is_connected(ok)

ScopeSpec == Init /\ [][ScopeNext]_vars

\* The round trip: a payload is chosen, the client connects, adds it and
\* fetches what the add returned.
CodecInit ==
    /\ Init!1 /\ Init!2 /\ Init!3 /\ Init!4 /\ Init!5 /\ Init!6 /\ Init!7
    /\ Init!8 /\ Init!9 /\ Init!10 /\ Init!11
    /\ payload \in AllPayloads

CodecConnect == lifecycle = "new" /\ connect(TRUE)

CodecAdd ==
    /\ outcome.op = "connect"
    /\ \E p \in BOOLEAN, ok \in BOOLEAN : add_data(payload, p, ok)

CodecGet ==
    /\ outcome.op = "add_data"
    /\ outcome.kind = "return"
    /\ \E ok \in BOOLEAN : get_data(outcome.value, ok)

CodecNext == CodecConnect \/ CodecAdd \/ CodecGet

CodecSpec == CodecInit /\ [][CodecNext]_vars

\* --------------------------------------------------------------- claims

PublicOps ==
    {"connect", "close", "add_file", "add_data", "get_file", "get_data",
     "pin", "unpin", "list_pins", "get_stats", "is_connected"}

DataOps ==
    {"add_file", "add_data", "get_file", "get_data",
     "pin", "unpin", "list_pins", "get_stats"}

\* C1: whatever the library raises during a public operation, in any client
\* state, the operation returns or raises IPFSError or a subclass of it; no
\* other exception type reaches the caller.
C1_OnlyClientErrors ==
    (outcome.op \in PublicOps /\ outcome.kind = "raise")
        => outcome.exc \in ClientErrors

\* C2: a data operation on a client whose connect() was never called either
\* auto-connects and runs against a live handle, or raises IPFSConnectionError;
\* it raises no other error kind.  (Calls that end before they use the handle,
\* add_file on a missing path, are left aside.)
C2_UnconnectedDataOp ==
    (lifecycle = "new" /\ outcome.op \in DataOps /\ outcome.lib # "none")
        => \/ outcome.kind = "return" /\ _client # 0
           \/ outcome.kind = "raise" /\ outcome.exc = "IPFSConnectionError"

\* C3: after close() completed on a connected client every data operation
\* fails with IPFSConnectionError until a fresh connect() succeeds; after that
\* connect() the operations run against the new handle.  (Calls that end
\* before they use the handle, add_file on a missing path, are left aside.)
C3_ClosedDataOpFails ==
    /\ (lifecycle = "closed" /\ outcome.op \in DataOps /\ outcome.lib # "none")
           => (outcome.kind = "raise" /\ outcome.exc = "IPFSConnectionError")
    /\ (lifecycle = "connected" /\ outcome.op \in DataOps /\ outcome.lib # "none")
           => (_client = handles /\ outcome.lib # "AttributeError")

\* C4: close() on a never-connected or an already closed client is a no-op: it
\* raises nothing and calls close() on no transport handle; only the first
\* close() after a successful connect() releases the handle.
C4_CloseIdempotent ==
    [][(outcome'.op = "close" /\ lifecycle \in {"new", "failed", "closed"})
           => (outcome'.kind = "return" /\ closeCalls' = closeCalls)]_vars

\* what the specification says get_data makes of fetched bytes
ExpectedRead(b) ==
    LET d == Decode(b)
    IN  IF d.ok /\ JsonLoads(d.text).ok THEN JsonLoads(d.text).val
        ELSE IF d.ok THEN PyStr(d.text)
        ELSE PyBytes(b)

\* C5: whenever the fetch succeeds get_data returns and never raises: the
\* parsed JSON value if the bytes are UTF-8 JSON, else the decoded text if they
\* are valid UTF-8, else the raw bytes unchanged.
C5_GetDataTotal ==
    (outcome.op = "get_data" /\ outcome.lib = "ok")
        => (outcome.kind = "return" /\ outcome.value = ExpectedRead(outcome.arg.v))

\* C6: is_connected() never raises, in any client state and for any failure of
\* the probe: it returns True exactly when the identity query succeeds, False
\* on any failure, and False when there is no transport handle.
C6_IsConnectedNeverRaises ==
    outcome.op = "is_connected"
        => /\ outcome.kind = "return"
           /\ outcome.value = PyBool(outcome.lib = "ok")
           /\ _client = 0 => outcome.value = PyBool(FALSE)

\* C6's case: the probe fails on a closed client and False comes back
C6_Witness ==
    /\ outcome.op = "is_connected"
    /\ lifecycle = "closed"
    /\ outcome.lib = "TransportError"
    /\ outcome.value = PyBool(FALSE)

\* what C7 calls equivalent to the payload
RoundTripEquivalent(p, v) ==
    IF p.t = "dict" THEN PyEq(v, p)
    ELSE IF p.t = "str" THEN v = p
    ELSE IF Decode(p.v).ok THEN v = PyStr(Decode(p.v).text)
    ELSE v = p

\* a text or bytes payload whose text is itself a JSON document
ReadsAsJson(p) ==
    /\ p.t \in {"str", "bytes"}
    /\ LET d == Decode(IF p.t = "str" THEN Encode(p.v) ELSE p.v)
       IN  d.ok /\ JsonLoads(d.text).ok

RECURSIVE StringKeyed(_)
\* a value whose dicts, at every depth, have only string keys
StringKeyed(p) ==
    p.t = "dict"
        => \A i \in 1..Len(p.v) : p.v[i][1].t = "str" /\ StringKeyed(p.v[i][2])

\* C7: on a connected client with a faithful node, get_data(add_data(payload))
\* returns a value equivalent to the payload: an equal structured value for a
\* dict, the same text for text, and for bytes the text they decode to if they
\* are valid UTF-8 and the same bytes otherwise.  (Left aside: text and bytes
\* that are themselves a JSON document, which get_data reads as JSON, and
\* dicts with keys that are not strings, which json.dumps turns into strings.)
C7_RoundTrip ==
    (outcome.op = "get_data" /\ outcome.lib = "ok"
        /\ ~ReadsAsJson(payload) /\ StringKeyed(payload))
        => (outcome.kind = "return" /\ RoundTripEquivalent(payload, outcome.value))

\* C8: on a connected client list_pins() returns a collection that includes
\* every identifier whose last successful pin/unpin call was a pin, and
\* excludes every identifier unpinned since its last pin or pinning add,
\* whatever was done to other identifiers in between.
C8_PinListing ==
    (outcome.op = "list_pins" /\ outcome.lib = "ok")
        => /\ \A id \in lastPinOp.pin :
                  outcome.kind = "return" /\ id \in outcome.value.v
           /\ \A id \in lastPinOp.unpin :
                  outcome.kind = "return" /\ id \notin outcome.value.v

\* C9: once the async-with block is entered, leaving it (body completed or
\* raised) calls close() exactly once on the handle acquired on entry, so that
\* handle is never left unreleased.
C9_ScopedRelease ==
    [][(scope = "inside" /\ scope' = "exited")
           => closeCalls'[entry] = closeCalls[entry] + 1]_vars

\* C10 as stated: only pin and unpin change the node's recursive pin set.
C10_OnlyPinUnpinMutate ==
    [][pins' # pins => outcome'.op \in {"pin", "unpin"}]_vars

\* C10, amended: the node's recursive pin set is changed only by pin, by unpin
\* and by add_file / add_data called with pin=True; every other operation, an
\* add with pin=False included, leaves it unchanged.
C10_PinSetFrame ==
    [][pins' # pins
           => \/ outcome'.op \in {"pin", "unpin"}
              \/ outcome'.op \in {"add_file", "add_data"} /\ outcome'.pin]_vars

\* C10's case: an add with pin=False returned on a node that holds pins, and
\* the added content is not among them
C10_Witness ==
    /\ outcome.op = "add_data"
    /\ outcome.kind = "return"
    /\ ~outcome.pin
    /\ pins # {}
    /\ outcome.value \notin pins

====
